---- MODULE Spec2Model ----
(***************************************************************************)
(* Page / navigation registry and page lifecycle of the Streamlit UI       *)
(* scaffold: StreamlitApp (streamlit_ui/core/app.py) and Page              *)
(* (streamlit_ui/core/page.py).                                            *)
(*                                                                         *)
(* One action per public operation of StreamlitApp: add_page, remove_page  *)
(* and run.  run() is one rerun cycle of the host; its inputs are the      *)
(* option the sidebar radio returns and the page hook, if any, that raises *)
(* in the cycle.  The hooks of a page are opaque: what is observed of them *)
(* is the order in which run() invokes them, kept in log for the latest    *)
(* cycle.                                                                  *)
(***************************************************************************)
EXTENDS Integers, Sequences, FiniteSets, TLC

VARIABLES
    pages,              \* self.pages: dict name -> Page, as the pages in key order
    navigation_items,   \* self.navigation_items: list of {name, icon, display}
    current_page,       \* self.current_page: a page name or None
    callbacks,          \* self.callbacks: event name -> list of callables
    session_state,      \* st.session_state: key -> value
    config,             \* self.config: the fields of AppConfig that run() reads
    lastOp,             \* the operation that produced this state
    log,                \* what the latest run() invoked, in order
    exception,          \* the hook whose exception left the latest run(), or None
    selected,           \* what render_sidebar() returned in the latest run()
    prev_page,          \* current_page at the entry of the latest run()
    on_init_calls,      \* per registered page: on_init calls since it was registered
    insertion_order,    \* page names in the order of their insertion
    args,               \* the arguments of the latest operation
    result,             \* what the latest operation returned
    registered,         \* the accepted add_callback calls, <<event, callable>>, in call order
    managers,           \* the namespaces a StateManager has been constructed for
    last_set,           \* per namespace and key: the value of the latest set() still in force
    cleared,            \* the namespaces with no set() since their latest clear()
    pipeline,           \* one execution of scripts/run_full_pipeline.py
    app_starts          \* the cycles that executed on_app_start callbacks: never, once, repeated

vars == <<pages, navigation_items, current_page, callbacks, session_state, config,
          lastOp, log, exception, selected, prev_page, on_init_calls, insertion_order,
          args, result, registered, managers, last_set, cleared, pipeline, app_starts>>

\* The fields of the application object, with their history
appVars == <<pages, navigation_items, current_page, callbacks, config,
             on_init_calls, insertion_order, registered, app_starts>>

\* The history of the StateManager calls
stateVars == <<managers, last_set, cleared>>

\* What the latest call on the application or on session state left to observe
callVars == <<session_state, lastOp, log, exception, selected, prev_page, args, result>>

----------------------------------------------------------------------------
(* Bounds and universes *)

\* add_page is not taken once navigation_items holds this many entries
MaxNav == 3

\* Python's None
None == "None"

\* The store_true flags of the pipeline runner that skip a step
SkipFlags == {"skip_pdf", "skip_chunk", "skip_embed"}

\* Page names; page.name is a non-empty display name
Names == {"Home", "Chat", "My Chat"}

\* The Page objects an application may register.  Two of them share the name
\* "Home" (a second add_page under a registered name), and two of them compose
\* the same display label "H My Chat".
PageObjs ==
    { [name |-> "Home",    icon |-> "H"],
      [name |-> "Home",    icon |-> "N"],
      [name |-> "Chat",    icon |-> "H My"],
      [name |-> "My Chat", icon |-> "H"] }

\* The event names __init__ puts in self.callbacks
Events == {"on_page_change", "on_app_start", "on_app_end"}

\* The namespaces, keys, values and defaults the StateManager calls use
Namespaces == {"app", "chat_page"}

StateKeys == {"initialized", "count"}

Values == {"x", "y"}

Defaults == {None, "d"}

\* The hooks of a page whose exception run() may meet
Hooks == {"on_unload", "on_init", "on_load", "render"}

----------------------------------------------------------------------------
(* Page *)

\* Page.get_display_name: f"{self.icon} {self.name}"
get_display_name(page) == page.icon \o " " \o page.name

\* Python truthiness of an Optional[str]: None and "" are false
Truthy(x) == x # None /\ x # ""

----------------------------------------------------------------------------
(* dict, as the sequence of its values in key order (the key is page.name) *)

Keys(d) == [i \in 1..Len(d) |-> d[i].name]

KeySet(d) == {d[i].name : i \in 1..Len(d)}

\* d[name]
DictGet(d, name) == d[CHOOSE i \in 1..Len(d) : d[i].name = name]

\* d[page.name] = page: a present key keeps its position, a new key goes last
DictSetItem(d, page) ==
    IF page.name \in KeySet(d)
    THEN [i \in 1..Len(d) |-> IF d[i].name = page.name THEN page ELSE d[i]]
    ELSE Append(d, page)

\* Variant of DictDelItem: the key stays
DictDelItem_Noop(d, name) == d

\* del d[name]
DictDelItem(d, name) == SelectSeq(d, LAMBDA p : p.name # name)

----------------------------------------------------------------------------
(* Initial state: StreamlitApp.__init__; the pipeline runner not started *)

Init ==
    /\ pages = <<>>
    /\ navigation_items = <<>>
    /\ current_page = None
    /\ callbacks = [e \in Events |-> <<>>]
    /\ session_state = <<>>
    /\ config \in [sidebar_enabled : BOOLEAN]
    /\ lastOp = "init"
    /\ log = <<>>
    /\ exception = None
    /\ selected = None
    /\ prev_page = None
    /\ on_init_calls = [n \in Names |-> "never"]
    /\ insertion_order = <<>>
    /\ args = <<>>
    /\ result = None
    /\ registered = <<>>
    /\ managers = {}
    /\ last_set = [ns \in Namespaces |-> [k \in StateKeys |-> None]]
    /\ cleared = {}
    /\ pipeline = [pc |-> "main", OPENAI_API_KEY |-> None,
                   args |-> [f \in SkipFlags \cup {"start_chat"} |-> FALSE],
                   step |-> "", events |-> <<>>, exit_code |-> None]
    /\ app_starts = "never"

----------------------------------------------------------------------------
(* Callables registered as callbacks.  A callable is opaque; what matters   *)
(* to the application is whether calling it raises.                         *)

Callables == {"cb_ok", "cb_raise"}

Raises(cb) == cb = "cb_raise"

\* Variant of CallEach: the loop ends at the first callback that raises
RECURSIVE CallEach_Abort(_, _)
CallEach_Abort(cbs, event) ==
    IF cbs = <<>> THEN <<>>
    ELSE LET cb == Head(cbs) IN
         IF Raises(cb)
         THEN << <<"callback", event, cb>>, <<"logger.error", event, cb>> >>
         ELSE << <<"callback", event, cb>> >> \o CallEach_Abort(Tail(cbs), event)

\* The for loop of _execute_callbacks over one list: every callback is called,
\* an exception is caught and logged, and the loop goes on
RECURSIVE CallEach(_, _)
CallEach(cbs, event) ==
    IF cbs = <<>> THEN <<>>
    ELSE LET cb == Head(cbs) IN
         (IF Raises(cb)
          THEN << <<"callback", event, cb>>, <<"logger.error", event, cb>> >>
          ELSE << <<"callback", event, cb>> >>)
         \o CallEach(Tail(cbs), event)

\* The callables a log shows invoked for an event, in order
Invoked(l, event) ==
    LET es == SelectSeq(l, LAMBDA e : e[1] = "callback" /\ e[2] = event) IN
    [i \in 1..Len(es) |-> es[i][3]]

\* Variant of _execute_callbacks: the on_app_end callbacks are called as well
_execute_callbacks_WithEnd(event) ==
    CallEach(IF event \in DOMAIN callbacks THEN callbacks[event] ELSE <<>>, event)
    \o CallEach(callbacks["on_app_end"], "on_app_end")

\* StreamlitApp._execute_callbacks: self.callbacks.get(event, [])
_execute_callbacks(event) ==
    CallEach(IF event \in DOMAIN callbacks THEN callbacks[event] ELSE <<>>, event)

----------------------------------------------------------------------------
(* Sidebar *)

\* st.radio(label, options): None without options, else the option chosen
radio(options, choice) == IF options = <<>> THEN None ELSE options[choice]

\* The choices the radio offers in the current state
RadioChoices ==
    IF config.sidebar_enabled /\ navigation_items # <<>>
    THEN 1..Len(navigation_items)
    ELSE {0}

\* The loop of render_sidebar that maps the selected display label back to a
\* page name: the first navigation entry with that label, None if there is none
ResolveSelected(items, sel) ==
    IF \E i \in 1..Len(items) : items[i].display = sel
    THEN items[CHOOSE i \in 1..Len(items) :
                   /\ items[i].display = sel
                   /\ \A j \in 1..(i - 1) : items[j].display # sel].name
    ELSE None

\* StreamlitApp.render_sidebar
render_sidebar(choice) ==
    IF ~config.sidebar_enabled THEN None
    ELSE LET page_names == [i \in 1..Len(navigation_items) |->
                                navigation_items[i].display]
         IN  ResolveSelected(navigation_items, radio(page_names, choice))

----------------------------------------------------------------------------
(* run(), in the order of its statements.  A cycle in progress is a record  *)
(* [cur, log, exc]: the marker, the calls made so far, and the hook whose   *)
(* exception is propagating (None while the cycle goes on).                 *)

\* Call a hook of pages[name]; it raises when it is the cycle's failing hook
CallHook(r, hook, name, fault) ==
    LET page == DictGet(pages, name) IN
    [r EXCEPT !.log = Append(@, <<hook, page.name, page.icon>>),
              !.exc = IF fault = hook THEN hook ELSE None]

\* Variant of DefaultSelection: the test for a missing selection is dropped
DefaultSelection_Always(selected_page_name) ==
    IF pages # <<>>
    THEN Keys(pages)[1]
    ELSE selected_page_name

\* Variant of DefaultSelection: the last key instead of the first
DefaultSelection_Last(selected_page_name) ==
    IF selected_page_name = None /\ pages # <<>>
    THEN Keys(pages)[Len(pages)]
    ELSE selected_page_name

\* "Default to first page": list(self.pages.keys())[0] when nothing is selected
DefaultSelection(selected_page_name) ==
    IF selected_page_name = None /\ pages # <<>>
    THEN Keys(pages)[1]
    ELSE selected_page_name

\* Variant of UpdateCurrentPage: on_init of the incoming page comes before the
\* on_page_change callbacks
UpdateCurrentPage_InitFirst(r, selected_page_name, fault) ==
    IF selected_page_name = r.cur THEN r
    ELSE
    LET r1 == IF Truthy(r.cur) /\ r.cur \in KeySet(pages)
              THEN CallHook(r, "on_unload", r.cur, fault)
              ELSE r
        r2 == IF r1.exc # None THEN r1
              ELSE [r1 EXCEPT !.cur = selected_page_name,
                              !.log = Append(@, <<"set_current", selected_page_name, "">>)]
        r3 == IF r2.exc = None /\ Truthy(r2.cur) /\ r2.cur \in KeySet(pages)
              THEN CallHook(r2, "on_init", r2.cur, fault)
              ELSE r2
    IN  IF r1.exc # None THEN r1
        ELSE [r3 EXCEPT !.log = @ \o _execute_callbacks("on_page_change")]

\* Variant of UpdateCurrentPage: the marker is assigned before on_unload
UpdateCurrentPage_AssignFirst(r, selected_page_name, fault) ==
    IF selected_page_name = r.cur THEN r
    ELSE
    LET r1 == IF Truthy(r.cur) /\ r.cur \in KeySet(pages)
              THEN [CallHook(r, "on_unload", r.cur, fault) EXCEPT !.cur = selected_page_name]
              ELSE [r EXCEPT !.cur = selected_page_name]
        r2 == IF r1.exc # None THEN r1
              ELSE [r1 EXCEPT !.log = Append(@, <<"set_current", selected_page_name, "">>)
                                      \o _execute_callbacks("on_page_change")]
    IN  IF r2.exc = None /\ Truthy(r2.cur) /\ r2.cur \in KeySet(pages)
        THEN CallHook(r2, "on_init", r2.cur, fault)
        ELSE r2

\* Variant of UpdateCurrentPage: the on_page_change callbacks run in every cycle
UpdateCurrentPage_AlwaysNotify(r, selected_page_name, fault) ==
    IF selected_page_name = r.cur
    THEN [r EXCEPT !.log = @ \o _execute_callbacks("on_page_change")]
    ELSE
    LET r1 == IF Truthy(r.cur) /\ r.cur \in KeySet(pages)
              THEN CallHook(r, "on_unload", r.cur, fault)
              ELSE r
        r2 == IF r1.exc # None THEN r1
              ELSE [r1 EXCEPT !.cur = selected_page_name,
                              !.log = Append(@, <<"set_current", selected_page_name, "">>)
                                      \o _execute_callbacks("on_page_change")]
    IN  IF r2.exc = None /\ Truthy(r2.cur) /\ r2.cur \in KeySet(pages)
        THEN CallHook(r2, "on_init", r2.cur, fault)
        ELSE r2

\* "Update current page": the block under selected_page_name != self.current_page
UpdateCurrentPage(r, selected_page_name, fault) ==
    IF selected_page_name = r.cur THEN r
    ELSE
    LET r1 == IF Truthy(r.cur) /\ r.cur \in KeySet(pages)
              THEN CallHook(r, "on_unload", r.cur, fault)
              ELSE r
        r2 == IF r1.exc # None THEN r1
              ELSE [r1 EXCEPT !.cur = selected_page_name,
                              !.log = Append(@, <<"set_current", selected_page_name, "">>)
                                      \o _execute_callbacks("on_page_change")]
    IN  IF r2.exc = None /\ Truthy(r2.cur) /\ r2.cur \in KeySet(pages)
        THEN CallHook(r2, "on_init", r2.cur, fault)
        ELSE r2

\* Variant of RenderSelectedPage: on_load only in a cycle that changed the marker
RenderSelectedPage_LoadOnChange(r, fault) ==
    IF r.exc # None THEN r
    ELSE IF Truthy(r.cur) /\ r.cur \in KeySet(pages)
    THEN LET r1 == IF r.cur # current_page
                   THEN CallHook(r, "on_load", r.cur, fault)
                   ELSE r
             page == DictGet(pages, r.cur)
         IN  IF r1.exc # None THEN r1
             ELSE [r1 EXCEPT !.log =
                      @ \o (IF fault = "render"
                            THEN << <<"render", page.name, page.icon>>,
                                    <<"st.error", page.name, page.icon>>,
                                    <<"logger.error", page.name, page.icon>> >>
                            ELSE << <<"render", page.name, page.icon>> >>)]
    ELSE IF pages # <<>>
    THEN [r EXCEPT !.log = Append(@, <<"st.info", "", "">>)]
    ELSE [r EXCEPT !.log = Append(@, <<"st.warning", "", "">>)]

\* Variant of RenderSelectedPage: render() is called outside try/except
RenderSelectedPage_Uncaught(r, fault) ==
    IF r.exc # None THEN r
    ELSE IF Truthy(r.cur) /\ r.cur \in KeySet(pages)
    THEN LET r1 == CallHook(r, "on_load", r.cur, fault)
         IN  IF r1.exc # None THEN r1
             ELSE CallHook(r1, "render", r.cur, fault)
    ELSE IF pages # <<>>
    THEN [r EXCEPT !.log = Append(@, <<"st.info", "", "">>)]
    ELSE [r EXCEPT !.log = Append(@, <<"st.warning", "", "">>)]

\* "Render the selected page": on_load, then render under try/except
RenderSelectedPage(r, fault) ==
    IF r.exc # None THEN r
    ELSE IF Truthy(r.cur) /\ r.cur \in KeySet(pages)
    THEN LET r1 == CallHook(r, "on_load", r.cur, fault)
             page == DictGet(pages, r.cur)
         IN  IF r1.exc # None THEN r1
             ELSE [r1 EXCEPT !.log =
                      @ \o (IF fault = "render"
                            THEN << <<"render", page.name, page.icon>>,
                                    <<"st.error", page.name, page.icon>>,
                                    <<"logger.error", page.name, page.icon>> >>
                            ELSE << <<"render", page.name, page.icon>> >>)]
    ELSE IF pages # <<>>
    THEN [r EXCEPT !.log = Append(@, <<"st.info", "", "">>)]
    ELSE [r EXCEPT !.log = Append(@, <<"st.warning", "", "">>)]

\* The number of events of one kind about one page in a log
RECURSIVE Count(_, _, _)
Count(l, kind, name) ==
    IF l = <<>> THEN 0
    ELSE (IF l[1][1] = kind /\ l[1][2] = name THEN 1 ELSE 0)
         + Count(Tail(l), kind, name)

NextCalls(c) == IF c = "never" THEN "once" ELSE "repeated"

----------------------------------------------------------------------------
(* Operations *)

\* StreamlitApp.add_page
add_page(page) ==
    /\ Len(navigation_items) < MaxNav
    /\ pages' = DictSetItem(pages, page)
    /\ navigation_items' = Append(navigation_items,
           [name |-> page.name, icon |-> page.icon,
            display |-> get_display_name(page)])
    /\ on_init_calls' =
           IF page.name \in KeySet(pages) /\ DictGet(pages, page.name) = page
           THEN on_init_calls
           ELSE [on_init_calls EXCEPT ![page.name] = "never"]
    /\ insertion_order' =
           IF page.name \in KeySet(pages) THEN insertion_order
           ELSE Append(insertion_order, page.name)
    /\ lastOp' = "add_page"
    /\ args' = <<page>> /\ result' = "self"
    /\ log' = <<>> /\ exception' = None /\ selected' = None /\ prev_page' = None
    /\ UNCHANGED <<current_page, callbacks, session_state, config, registered, stateVars, pipeline, app_starts>>

\* Variant of FilterNavigation: the navigation list is left as it was
FilterNavigation_Keep(items, page_name) == items

\* Variant of FilterNavigation: only the first entry of the name is dropped
FilterNavigation_First(items, page_name) ==
    LET hits == {i \in 1..Len(items) : items[i].name = page_name} IN
    IF hits = {} THEN items
    ELSE LET first == CHOOSE i \in hits : \A j \in hits : i <= j
         IN  SubSeq(items, 1, first - 1) \o SubSeq(items, first + 1, Len(items))

\* The list comprehension of remove_page over navigation_items
FilterNavigation(items, page_name) ==
    SelectSeq(items, LAMBDA item : item.name # page_name)

\* StreamlitApp.remove_page
remove_page(page_name) ==
    /\ IF page_name \in KeySet(pages)
       THEN /\ pages' = DictDelItem(pages, page_name)
            /\ navigation_items' = FilterNavigation(navigation_items, page_name)
            /\ on_init_calls' = [on_init_calls EXCEPT ![page_name] = "never"]
            /\ insertion_order' =
                   SelectSeq(insertion_order, LAMBDA n : n # page_name)
       ELSE UNCHANGED <<pages, navigation_items, on_init_calls, insertion_order>>
    /\ lastOp' = "remove_page"
    /\ args' = <<page_name>> /\ result' = "self"
    /\ log' = IF page_name \in KeySet(pages)
              THEN << <<"logger.info", "Removed page", page_name>> >> ELSE <<>>
    /\ exception' = None /\ selected' = None /\ prev_page' = None
    /\ UNCHANGED <<current_page, callbacks, session_state, config, registered, stateVars, pipeline, app_starts>>

\* StreamlitApp.run: one rerun cycle
run(choice, fault) ==
    LET first == "app_initialized" \notin DOMAIN session_state
        r0 == [cur |-> current_page,
               log |-> IF first THEN _execute_callbacks("on_app_start") ELSE <<>>,
               exc |-> None]
        selected_page_name == render_sidebar(choice)
        r1 == UpdateCurrentPage(r0, DefaultSelection(selected_page_name), fault)
        r2 == RenderSelectedPage(r1, fault)
    IN  /\ session_state' =
               IF first
               THEN ("app_initialized" :> TRUE) @@ ("app_version" :> "0.1.0")
                    @@ session_state
               ELSE session_state
        /\ current_page' = r2.cur
        /\ log' = r2.log
        /\ exception' = r2.exc
        /\ selected' = selected_page_name
        /\ prev_page' = current_page
        /\ on_init_calls' =
               [n \in Names |-> IF Count(r2.log, "on_init", n) > 0
                                THEN NextCalls(on_init_calls[n])
                                ELSE on_init_calls[n]]
        /\ lastOp' = "run"
        /\ args' = <<>> /\ result' = None
        /\ app_starts' = IF Invoked(r0.log, "on_app_start") # <<>>
                         THEN NextCalls(app_starts)
                         ELSE app_starts
        /\ UNCHANGED <<pages, navigation_items, callbacks, config, insertion_order,
                       registered, stateVars, pipeline>>

\* The event names a caller may pass to add_callback: the three of Events
\* and one that is not among them
EventArgs == Events \cup {"on_click"}

\* add_callback is not taken once this many registrations were accepted
MaxCallbacks == 2

\* Variant of AppendCallback: no test that the event is known
AppendCallback_AnyEvent(cbs, event, callback) ==
    IF event \in DOMAIN cbs
    THEN [cbs EXCEPT ![event] = Append(@, callback)]
    ELSE (event :> <<callback>>) @@ cbs

\* Variant of AppendCallback: the callback is put in front of the list
AppendCallback_Front(cbs, event, callback) ==
    IF event \in DOMAIN cbs
    THEN [cbs EXCEPT ![event] = <<callback>> \o @]
    ELSE cbs

\* The body of add_callback: if event in self.callbacks: append
AppendCallback(cbs, event, callback) ==
    IF event \in DOMAIN cbs
    THEN [cbs EXCEPT ![event] = Append(@, callback)]
    ELSE cbs

\* StreamlitApp.add_callback
add_callback(event, callback) ==
    /\ Len(registered) < MaxCallbacks
    /\ callbacks' = AppendCallback(callbacks, event, callback)
    /\ registered' = IF event \in Events
                     THEN Append(registered, <<event, callback>>)
                     ELSE registered
    /\ lastOp' = "add_callback"
    /\ args' = <<event, callback>> /\ result' = "self"
    /\ log' = <<>> /\ exception' = None /\ selected' = None /\ prev_page' = None
    /\ UNCHANGED <<pages, navigation_items, current_page, session_state, config,
                   on_init_calls, insertion_order, stateVars, pipeline, app_starts>>

Next ==
    \/ \E page \in PageObjs : add_page(page)
    \/ \E page_name \in Names : remove_page(page_name)
    \/ \E choice \in RadioChoices, fault \in Hooks \cup {None} : run(choice, fault)

Spec == Init /\ [][Next]_vars

----------------------------------------------------------------------------
(* The application with callbacks: two pages, each registered at most once  *)
(* at a time, and up to MaxCallbacks callbacks.                             *)

TwoPages == { [name |-> "Home", icon |-> "H"], [name |-> "Chat", icon |-> "H My"] }

NextCallbacks ==
    \/ \E page \in TwoPages : page.name \notin KeySet(pages) /\ add_page(page)
    \/ \E page_name \in KeySet(pages) : remove_page(page_name)
    \/ \E event \in EventArgs, callback \in Callables : add_callback(event, callback)
    \/ \E choice \in RadioChoices, fault \in Hooks \cup {None} : run(choice, fault)

SpecCallbacks == Init /\ [][NextCallbacks]_vars

----------------------------------------------------------------------------
(* Session state helpers: SessionState and StateManager                     *)
(* (streamlit_ui/utils/state.py).  A Python dict is a function from its     *)
(* keys; {} is the function with no key.                                    *)

EmptyDict == <<>>

\* m[key] = value
MapPut(m, key, value) == (key :> value) @@ m

\* del m[key]
MapDel(m, key) == [k \in DOMAIN m \ {key} |-> m[k]]

\* m.get(key, default)
MapGet(m, key, default) == IF key \in DOMAIN m THEN m[key] ELSE default

\* Variant of _ensure_namespace: the namespace is reset on every call
_ensure_namespace_Reset(ss, ns) == MapPut(ss, ns, EmptyDict)

\* Variant of _ensure_namespace: nothing is created
_ensure_namespace_Noop(ss, ns) == ss

\* StateManager._ensure_namespace
_ensure_namespace(ss, ns) ==
    IF ns \notin DOMAIN ss THEN MapPut(ss, ns, EmptyDict) ELSE ss

\* Variant of ClearNamespace: the namespace key is deleted
ClearNamespace_Delete(ss, ns) == MapDel(ss, ns)

\* Variant of ClearNamespace: the namespace is only made sure to exist
ClearNamespace_Ensure(ss, ns) == _ensure_namespace(ss, ns)

\* Variant of ClearNamespace: every namespace is emptied
ClearNamespace_All(ss, ns) == [k \in DOMAIN ss \cup {ns} |-> EmptyDict]

\* The body of StateManager.clear: st.session_state[self.namespace] = {}
ClearNamespace(ss, ns) == MapPut(ss, ns, EmptyDict)

\* Variant of CopyOf: the stored dict itself is handed out
CopyOf_Alias(ss, ns) == [of |-> ns, ref |-> "stored", value |-> ss[ns]]

\* st.session_state[self.namespace].copy(): a new dict with the same items
CopyOf(ss, ns) == [of |-> ns, ref |-> "copy", value |-> ss[ns]]

\* What a StateManager call found under its namespace key when it was invoked
NamespaceSeen(ns) ==
    <<"namespace", ns, IF ns \in DOMAIN session_state THEN "present" ELSE "absent">>

\* The frame of a call on session state: it returns res or raises exc
StateOp(op, a, res, exc, l, ss) ==
    /\ lastOp' = op
    /\ args' = a
    /\ result' = res
    /\ exception' = exc
    /\ log' = l
    /\ session_state' = ss
    /\ selected' = None
    /\ prev_page' = None
    /\ UNCHANGED <<appVars, pipeline>>

\* A call that subscripts st.session_state[ns]: KeyError when ns is no key of
\* ss, else it goes on with res and the new session state ss2
Subscript(op, a, ns, ss, res, ss2) ==
    IF ns \notin DOMAIN ss
    THEN StateOp(op, a, None, "KeyError", <<NamespaceSeen(ns)>>, ss)
    ELSE StateOp(op, a, res, None, <<NamespaceSeen(ns)>>, ss2)

\* StateManager.__init__
StateManager_init(namespace) ==
    /\ StateOp("StateManager", <<namespace>>, None, None, <<NamespaceSeen(namespace)>>,
               _ensure_namespace(session_state, namespace))
    /\ managers' = managers \cup {namespace}
    /\ UNCHANGED <<last_set, cleared>>

\* StateManager.set
StateManager_set(ns, key, value) ==
    /\ ns \in managers
    /\ LET ss == _ensure_namespace(session_state, ns) IN
       Subscript("StateManager.set", <<ns, key, value>>, ns, ss, None,
                 IF ns \in DOMAIN ss THEN MapPut(ss, ns, MapPut(ss[ns], key, value)) ELSE ss)
    /\ last_set' = [last_set EXCEPT ![ns][key] = value]
    /\ cleared' = cleared \ {ns}
    /\ UNCHANGED managers

\* StateManager.get
StateManager_get(ns, key, default) ==
    /\ ns \in managers
    /\ LET ss == _ensure_namespace(session_state, ns) IN
       Subscript("StateManager.get", <<ns, key, default>>, ns, ss,
                 IF ns \in DOMAIN ss THEN MapGet(ss[ns], key, default) ELSE None, ss)
    /\ UNCHANGED stateVars

\* StateManager.delete
StateManager_delete(ns, key) ==
    /\ ns \in managers
    /\ LET ss == _ensure_namespace(session_state, ns) IN
       Subscript("StateManager.delete", <<ns, key>>, ns, ss, None,
                 IF ns \in DOMAIN ss /\ key \in DOMAIN ss[ns]
                 THEN MapPut(ss, ns, MapDel(ss[ns], key)) ELSE ss)
    /\ last_set' = [last_set EXCEPT ![ns][key] = None]
    /\ UNCHANGED <<managers, cleared>>

\* StateManager.clear
StateManager_clear(ns) ==
    /\ ns \in managers
    /\ StateOp("StateManager.clear", <<ns>>, None, None, <<NamespaceSeen(ns)>>,
               ClearNamespace(session_state, ns))
    /\ last_set' = [last_set EXCEPT ![ns] = [k \in StateKeys |-> None]]
    /\ cleared' = cleared \cup {ns}
    /\ UNCHANGED managers

\* StateManager.get_all
StateManager_get_all(ns) ==
    /\ ns \in managers
    /\ LET ss == _ensure_namespace(session_state, ns) IN
       Subscript("StateManager.get_all", <<ns>>, ns, ss,
                 IF ns \in DOMAIN ss THEN CopyOf(ss, ns) ELSE None, ss)
    /\ UNCHANGED stateVars

\* The caller changes the dict get_all() handed out: returned[key] = value, or
\* del returned[key].  The change reaches session state when the dict handed
\* out is the stored one.
caller_mutates(key, value) ==
    /\ lastOp \in {"StateManager.get_all", "caller_mutates"}
    /\ exception = None
    /\ LET m == IF value = None THEN MapDel(result.value, key)
                ELSE MapPut(result.value, key, value)
       IN  StateOp("caller_mutates", <<key, value>>, [result EXCEPT !.value = m], None, <<>>,
                   IF result.ref = "stored"
                   THEN MapPut(session_state, result.of, m)
                   ELSE session_state)
    /\ UNCHANGED stateVars

\* SessionState.delete
SessionState_delete(key) ==
    /\ StateOp("SessionState.delete", <<key>>, None, None, <<>>,
               IF key \in DOMAIN session_state THEN MapDel(session_state, key)
               ELSE session_state)
    /\ last_set' = [ns \in Namespaces |->
                        IF ns = key THEN [k \in StateKeys |-> None] ELSE last_set[ns]]
    /\ cleared' = cleared \ {key}
    /\ UNCHANGED managers

\* SessionState.clear
SessionState_clear ==
    /\ StateOp("SessionState.clear", <<>>, None, None, <<>>, EmptyDict)
    /\ last_set' = [ns \in Namespaces |-> [k \in StateKeys |-> None]]
    /\ cleared' = {}
    /\ UNCHANGED managers

\* The StateManager calls, and what a caller does with their results
NextState ==
    \/ \E ns \in Namespaces : StateManager_init(ns)
    \/ \E ns \in Namespaces, key \in StateKeys, value \in Values :
           StateManager_set(ns, key, value)
    \/ \E ns \in Namespaces, key \in StateKeys, default \in Defaults :
           StateManager_get(ns, key, default)
    \/ \E ns \in Namespaces, key \in StateKeys : StateManager_delete(ns, key)
    \/ \E ns \in Namespaces : StateManager_clear(ns)
    \/ \E ns \in Namespaces : StateManager_get_all(ns)
    \/ \E key \in StateKeys, value \in Values \cup {None} : caller_mutates(key, value)

SpecState == Init /\ [][NextState]_vars

\* The same, with SessionState used on the keys of the namespaces
NextSession ==
    \/ NextState
    \/ \E key \in Namespaces \cup {"app_initialized"} : SessionState_delete(key)
    \/ SessionState_clear

SpecSession == Init /\ [][NextSession]_vars

----------------------------------------------------------------------------
(* The application in a session whose state the pages can clear: the        *)
(* template's settings page calls st.session_state.clear(), and             *)
(* SessionState.delete / SessionState.clear are open to any page.           *)

NextAppSession ==
    \/ \E page \in TwoPages : page.name \notin KeySet(pages) /\ add_page(page)
    \/ \E callback \in Callables : add_callback("on_app_start", callback)
    \/ \E choice \in RadioChoices, fault \in Hooks \cup {None} : run(choice, fault)
    \/ SessionState_delete("app_initialized")
    \/ SessionState_clear

SpecAppSession == Init /\ [][NextAppSession]_vars

----------------------------------------------------------------------------
(* The pipeline runner: scripts/run_full_pipeline.py.  main() is followed   *)
(* statement by statement; pipeline.events keeps, in order, the directory   *)
(* creations, the subprocesses launched and their return codes.  A          *)
(* subprocess is opaque: what matters to the runner is its return code.     *)

\* The scripts main() launches through run_command, in the order of its steps
Steps == <<"pdf_to_markdown", "chunk_documents", "generate_embeddings">>

\* The script of the optional last step
ChatScript == "chat_with_docs"

\* The flag of argparse that skips a step
SkipFlagOf(step) ==
    CASE step = "pdf_to_markdown" -> "skip_pdf"
      [] step = "chunk_documents" -> "skip_chunk"
      [] step = "generate_embeddings" -> "skip_embed"

\* The directories main() creates
Directories == <<"markdown_dir", "chunks_dir", "db_path">>

\* Values of os.getenv("OPENAI_API_KEY")
ApiKeys == {None, "", "sk"}

\* Return codes of a subprocess
ReturnCodes == {0, 1, 2}

\* The step after step in main(), "" after the last one
StepAfter(step) ==
    LET i == CHOOSE j \in 1..Len(Steps) : Steps[j] = step IN
    IF i < Len(Steps) THEN Steps[i + 1] ELSE ""

\* sys.exit(code), or main() returning (code 0)
Exit(p, code) == [p EXCEPT !.pc = "exit", !.exit_code = code]

\* main() goes on to the statement of step, or to its closing messages
GoTo(p, step) ==
    IF step = "" THEN [p EXCEPT !.pc = "completed", !.step = ""]
    ELSE [p EXCEPT !.pc = "step", !.step = step]

\* Variant of run_command: every return code counts as success
run_command_AlwaysTrue(returncode) == TRUE

\* run_command's result: True, or False on CalledProcessError (check=True
\* raises it for a non-zero return code)
run_command(returncode) == returncode = 0

\* After subprocess.run of the chat script: its result is dropped, main()
\* returns
AfterChat(p, returncode) == Exit(p, 0)

\* The pipeline steps leave the application and session state alone
PipelineStep(p) ==
    /\ pipeline' = p
    /\ UNCHANGED <<appVars, stateVars, callVars>>

\* main(): parse_args and the environment it runs in
main(key, a) ==
    /\ pipeline.pc = "main"
    /\ PipelineStep([pipeline EXCEPT !.pc = "check_prerequisites",
                                     !.OPENAI_API_KEY = key, !.args = a])

\* if not check_prerequisites(): sys.exit(1)
check_prerequisites ==
    /\ pipeline.pc = "check_prerequisites"
    /\ PipelineStep(IF ~Truthy(pipeline.OPENAI_API_KEY)
                    THEN Exit(pipeline, 1)
                    ELSE [pipeline EXCEPT !.pc = "mkdir"])

\* The loop of Path(dir_path).mkdir(parents=True, exist_ok=True)
create_directories ==
    /\ pipeline.pc = "mkdir"
    /\ PipelineStep(GoTo([pipeline EXCEPT !.events =
                              @ \o [i \in 1..Len(Directories) |-> <<"mkdir", Directories[i]>>]],
                         Steps[1]))

\* if not args.skip_...: run_command(...) is entered, else the step is skipped
step_begin ==
    /\ pipeline.pc = "step"
    /\ PipelineStep(IF pipeline.args[SkipFlagOf(pipeline.step)]
                    THEN GoTo([pipeline EXCEPT !.events = Append(@, <<"skip", pipeline.step>>)],
                              StepAfter(pipeline.step))
                    ELSE [pipeline EXCEPT !.pc = "run_command",
                                          !.events = Append(@, <<"launch", pipeline.step>>)])

\* The subprocess of run_command returns; main() exits with 1 on False
step_end(returncode) ==
    /\ pipeline.pc = "run_command"
    /\ LET p == [pipeline EXCEPT !.events = Append(@, <<"return", pipeline.step, returncode>>)]
       IN  PipelineStep(IF run_command(returncode)
                        THEN GoTo(p, StepAfter(pipeline.step))
                        ELSE Exit(p, 1))

\* The closing messages, and if args.start_chat: subprocess.run of the chat
completed ==
    /\ pipeline.pc = "completed"
    /\ PipelineStep(IF pipeline.args["start_chat"]
                    THEN [pipeline EXCEPT !.pc = "chat", !.step = ChatScript,
                                          !.events = Append(@, <<"launch", ChatScript>>)]
                    ELSE Exit(pipeline, 0))

\* The chat subprocess returns
chat_end(returncode) ==
    /\ pipeline.pc = "chat"
    /\ PipelineStep(AfterChat([pipeline EXCEPT !.events =
                                   Append(@, <<"return", ChatScript, returncode>>)],
                              returncode))

NextPipeline ==
    \/ \E key \in ApiKeys, a \in [SkipFlags \cup {"start_chat"} -> BOOLEAN] : main(key, a)
    \/ check_prerequisites
    \/ create_directories
    \/ step_begin
    \/ \E returncode \in ReturnCodes : step_end(returncode)
    \/ completed
    \/ \E returncode \in ReturnCodes : chat_end(returncode)

SpecPipeline == Init /\ [][NextPipeline]_vars

----------------------------------------------------------------------------
(* Observations used by the properties *)

\* The names of the navigation entries, in list order
NavNames == [i \in 1..Len(navigation_items) |-> navigation_items[i].name]

\* The events of one kind in the latest cycle's log
EventsOf(kind) == SelectSeq(log, LAMBDA e : e[1] = kind)

\* The pages a hook was invoked on in the latest cycle, in order
PagesCalled(hook) ==
    LET es == EventsOf(hook) IN
    [i \in 1..Len(es) |-> [name |-> es[i][2], icon |-> es[i][3]]]

\* The latest operation was a run() that changed the marker
MarkerChanged == lastOp = "run" /\ current_page # prev_page

----------------------------------------------------------------------------
(* C1 *)

\* C1: after any sequence of add_page and remove_page calls, the names in
\* navigation_items are, as a set, the keys of pages and, as a sequence, the
\* currently present page names in the order of their insertion.
C1_NavigationMatchesRegistry ==
    /\ {NavNames[i] : i \in 1..Len(NavNames)} = KeySet(pages)
    /\ NavNames = insertion_order

(* C2 *)

\* C2: navigation_items never holds two entries with the same page name, so
\* len(navigation_items) = len(pages), also after add_page is called twice
\* with the same name.
C2_NoDuplicateNavigationNames ==
    /\ Len(navigation_items) = Len(pages)
    /\ \A i, j \in 1..Len(navigation_items) :
           navigation_items[i].name = navigation_items[j].name => i = j

(* C3 *)

\* C3: on_init is invoked at most once on a page for as long as it stays
\* registered, for any sequence of run() cycles and selections; navigating
\* A -> B -> A does not invoke A.on_init a second time.
C3_OnInitAtMostOnce ==
    \A n \in Names : on_init_calls[n] # "repeated"

(* C4 *)

\* C4 as claimed: on_load is invoked once per activation, so in every cycle
\* that returns normally on_load runs on page P exactly when current_page
\* changed to P in that cycle, and a cycle that keeps the same page invokes
\* no on_load.
C4_OnLoadOncePerActivation ==
    (lastOp = "run" /\ exception = None) =>
        \A n \in Names :
            Count(log, "on_load", n) = IF MarkerChanged /\ current_page = n THEN 1 ELSE 0

\* C4 as amended: on_load is invoked once per run() cycle, not once per
\* activation: every cycle that gets past the marker update (neither on_unload
\* nor on_init raised) with current_page naming a registered page invokes
\* on_load exactly once, on that page, whether or not the marker changed in
\* that cycle; no other cycle and no other page gets an on_load.
C4_OnLoadOncePerCycle ==
    lastOp = "run" =>
        \A n \in Names :
            Count(log, "on_load", n) =
                IF /\ current_page = n
                   /\ n \in KeySet(pages)
                   /\ exception \notin {"on_unload", "on_init"}
                THEN 1 ELSE 0

\* A cycle that kept the page it had and still invoked on_load on it
C4_Witness ==
    /\ lastOp = "run"
    /\ prev_page = current_page
    /\ current_page \in KeySet(pages)
    /\ Count(log, "on_load", current_page) = 1

(* C5 *)

\* C5: every time current_page changes away from page P, P.on_unload is
\* called exactly once in that cycle, and on_unload is never called on a page
\* that is not the current page, also when add_page and remove_page are
\* interleaved with the cycles (stated of the cycles that return normally).
C5_OnUnloadOncePerDeactivation ==
    (lastOp = "run" /\ exception = None) =>
        \A n \in Names :
            Count(log, "on_unload", n) =
                IF MarkerChanged /\ prev_page = n THEN 1 ELSE 0

(* C6 *)

\* C6: in every reachable state current_page is None or a key of pages.
C6_MarkerNamesRegisteredPage ==
    current_page = None \/ current_page \in KeySet(pages)

(* C7 *)

\* C7: when the sidebar selection of a cycle resolves to a registered name n
\* and no hook's exception leaves run(), current_page is n when run() returns
\* and render() was called in that cycle on pages[n] and on nothing else.
C7_SelectionBecomesActive ==
    (lastOp = "run" /\ selected \in KeySet(pages) /\ exception = None) =>
        /\ current_page = selected
        /\ PagesCalled("render") = << DictGet(pages, selected) >>

\* A cycle that switched from one registered page to another selected one
C7_Witness ==
    /\ lastOp = "run"
    /\ exception = None
    /\ selected \in KeySet(pages)
    /\ prev_page \in KeySet(pages)
    /\ prev_page # selected
    /\ current_page = selected
    /\ Len(EventsOf("render")) = 1

(* C8 *)

\* C8: every value run() assigns to current_page is None or the name of a
\* page registered at that moment, whatever the registry and whatever the
\* sidebar returns.
C8_RunAssignsRegisteredName ==
    lastOp = "run" =>
        /\ \A i \in 1..Len(log) :
               log[i][1] = "set_current" =>
                   log[i][2] = None \/ log[i][2] \in KeySet(pages)
        /\ MarkerChanged => (current_page = None \/ current_page \in KeySet(pages))

\* A cycle that found the marker naming a removed page and assigned the name
\* of a registered one
C8_Witness ==
    /\ lastOp = "run"
    /\ prev_page # None
    /\ prev_page \notin KeySet(pages)
    /\ Len(EventsOf("set_current")) = 1
    /\ current_page \in KeySet(pages)

(* C9 *)

\* C9: when the registry is not empty and the sidebar yields no selection,
\* run() makes the page whose name was inserted first among the registered
\* ones the active page (unless the on_unload of the outgoing page raises and
\* ends the cycle before the marker is touched), however many pages were
\* added after it and whatever the names are.
C9_DefaultIsFirstInserted ==
    (lastOp = "run" /\ selected = None /\ pages # <<>> /\ exception # "on_unload") =>
        current_page = insertion_order[1]

\* A cycle without a selection that activated "Home", inserted before "Chat"
\* (which sorts before it) and not the last page added
C9_Witness ==
    /\ lastOp = "run"
    /\ selected = None
    /\ Len(pages) >= 2
    /\ insertion_order[1] = "Home"
    /\ "Chat" \in KeySet(pages)
    /\ prev_page # "Home"
    /\ current_page = "Home"

(* C10 *)

\* The latest cycle called render() and render() raised: the exception was
\* either shown by st.error or left run()
RenderRaised ==
    lastOp = "run" /\ (EventsOf("st.error") # <<>> \/ exception = "render")

\* C10: if render() of the active page raises, run() returns normally,
\* current_page still names the page render() was called on, and the next
\* cycle with the same selection invokes on_load and then (unless that
\* on_load raises) render() on the same page again.
C10_RenderErrorKeepsPage ==
    [][ /\ RenderRaised' =>
            /\ exception' = None
            /\ PagesCalled("render")' = << DictGet(pages', current_page') >>
        /\ (RenderRaised /\ lastOp' = "run" /\ selected' = selected) =>
            /\ current_page' = current_page
            /\ PagesCalled("on_load")' = PagesCalled("render")
            /\ exception' # "on_load" => PagesCalled("render")' = PagesCalled("render")
      ]_vars

\* A cycle whose render() raised, directly after a cycle on the same page
\* whose render() raised too
C10_Witness ==
    /\ RenderRaised
    /\ prev_page = current_page
    /\ selected = current_page
    /\ Len(EventsOf("render")) = 1

----------------------------------------------------------------------------
(* Observations of callbacks *)

\* The callables registered for an event, in the order of the add_callback calls
RegisteredFor(event) ==
    LET rs == SelectSeq(registered, LAMBDA r : r[1] = event) IN
    [i \in 1..Len(rs) |-> rs[i][2]]

\* The callback invocations in a log, whatever the event
AllInvoked(l) == SelectSeq(l, LAMBDA e : e[1] = "callback")

\* The latest cycle logged the failure of a callback
CallbackFailed ==
    lastOp = "run" /\ \E i \in 1..Len(log) : log[i][1] = "logger.error" /\ log[i][2] \in Events

----------------------------------------------------------------------------
(* C11 *)

\* C11 as claimed: add_callback with an event name other than the three
\* recognized ones signals an UnknownEvent error to the caller.
C11_UnknownEventSignalsError ==
    (lastOp = "add_callback" /\ args[1] \notin Events) => exception = "UnknownEvent"

\* C11 as amended: add_callback with an event name other than the three
\* recognized ones signals nothing: it returns self as every other call does
\* and leaves the callbacks mapping unchanged.
C11_UnknownEventIgnored ==
    [][ (lastOp' = "add_callback" /\ args'[1] \notin Events) =>
            /\ callbacks' = callbacks
            /\ exception' = None
            /\ result' = "self" ]_vars

\* add_callback was called with an unknown event name on an application that
\* holds a registered callback
C11_Witness ==
    /\ lastOp = "add_callback"
    /\ args[1] = "on_click"
    /\ registered # <<>>

(* C12 *)

\* C12: _execute_callbacks(event) invokes the callbacks registered for that
\* event, each registration once, in the order of the add_callback calls, and
\* no callback registered for another event; in a run() cycle the callbacks
\* of on_page_change run so when the marker is assigned, and those of
\* on_app_start so or not at all.
C12_CallbacksInRegistrationOrder ==
    /\ \A e \in EventArgs :
           /\ Invoked(_execute_callbacks(e), e) = RegisteredFor(e)
           /\ Len(AllInvoked(_execute_callbacks(e))) = Len(RegisteredFor(e))
    /\ lastOp = "run" =>
           /\ Invoked(log, "on_page_change") =
                  IF EventsOf("set_current") # <<>>
                  THEN RegisteredFor("on_page_change") ELSE <<>>
           /\ Invoked(log, "on_app_start") \in {<<>>, RegisteredFor("on_app_start")}

\* A first cycle that invoked two different callbacks of on_app_start in the
\* order of their registration
C12_Witness ==
    /\ lastOp = "run"
    /\ registered = << <<"on_app_start", "cb_ok">>, <<"on_app_start", "cb_raise">> >>
    /\ Invoked(log, "on_app_start") = <<"cb_ok", "cb_raise">>

(* C13 *)

\* C13: a callback that raises is caught: the callbacks registered after it
\* for the event are still invoked, no callback's exception leaves run(), and
\* the cycle goes on to the page hooks: on_init on a changed marker, on_load
\* and render() of the active page, unless a page hook itself raises.
C13_CallbackFailureContained ==
    lastOp = "run" =>
        /\ \A e \in Events :
               Invoked(log, e) # <<>> => Len(Invoked(log, e)) = Len(callbacks[e])
        /\ exception \in Hooks \cup {None}
        /\ (CallbackFailed /\ current_page \in KeySet(pages)) =>
               /\ (MarkerChanged /\ exception # "on_unload") =>
                      Count(log, "on_init", current_page) = 1
               /\ exception \notin {"on_unload", "on_init"} =>
                      Count(log, "on_load", current_page) = 1
               /\ exception = None =>
                      Count(log, "render", current_page) = 1

\* A page-changing cycle whose first on_page_change callback raised, whose
\* second one was still invoked, and which rendered the page
C13_Witness ==
    /\ lastOp = "run"
    /\ Invoked(log, "on_page_change") = <<"cb_raise", "cb_ok">>
    /\ current_page \in KeySet(pages)
    /\ Count(log, "on_init", current_page) = 1
    /\ Count(log, "render", current_page) = 1


----------------------------------------------------------------------------
(* Observations on session state *)

\* The latest call was the StateManager method op
ManagerCall(op) == lastOp = "StateManager." \o op

\* The latest call was a StateManager method that found its namespace key absent
CalledWhileAbsent ==
    /\ lastOp \in {"StateManager.set", "StateManager.get", "StateManager.delete",
                   "StateManager.clear", "StateManager.get_all"}
    /\ log[1] = <<"namespace", args[1], "absent">>

\* What the set calls on ns still in force add up to: the dict of the keys
\* set and neither deleted nor cleared since, each with the value last set
SetCallsOf(ls, ns) ==
    [k \in {x \in StateKeys : ls[ns][x] # None} |-> ls[ns][k]]

----------------------------------------------------------------------------
\* C14: StateManager(ns).set(k, v) followed by get(k, d) returns v for any
\* default d, as long as no set or delete of k and no clear of ns happens in
\* between; calls on other keys of ns in between do not change the result.
C14_SetThenGetRoundTrips ==
    (ManagerCall("get") /\ last_set[args[1]][args[2]] # None) =>
        /\ exception = None
        /\ result = last_set[args[1]][args[2]]

\* A get of a key set to "y" with default "d", the namespace's other key
\* having been set in between or before
C14_Witness ==
    /\ ManagerCall("get")
    /\ last_set[args[1]][args[2]] = "y"
    /\ args[3] = "d"
    /\ result = "y"
    /\ DOMAIN session_state[args[1]] = StateKeys

----------------------------------------------------------------------------
\* C15: after StateManager(ns).clear(), whatever keys were set in ns before,
\* get_all() returns an empty mapping and get(k, d) returns d for every key
\* k (until the next set in ns).
C15_ClearEmptiesNamespace ==
    /\ (ManagerCall("get_all") /\ args[1] \in cleared) =>
           exception = None /\ result.value = EmptyDict
    /\ (ManagerCall("get") /\ args[1] \in cleared) =>
           exception = None /\ result = args[3]

\* get_all() on a cleared namespace returns the empty dict while the other
\* namespace still holds both keys
C15_Witness ==
    /\ ManagerCall("get_all")
    /\ args[1] \in cleared
    /\ result.value = EmptyDict
    /\ \E ns \in managers \ {args[1]} : DOMAIN session_state[ns] = StateKeys

----------------------------------------------------------------------------
\* C16: every StateManager operation (set, get, delete, clear, get_all)
\* invoked while its namespace key is absent from session state completes
\* without raising and leaves the namespace present as a mapping; get in
\* that situation returns the supplied default.
C16_AbsentNamespaceIsCreated ==
    CalledWhileAbsent =>
        /\ exception = None
        /\ args[1] \in DOMAIN session_state
        /\ DOMAIN session_state[args[1]] \subseteq StateKeys
        /\ (ManagerCall("get") => result = args[3])

\* get(k, "d") on a namespace whose key was removed after a set of k: it
\* returns "d" and the namespace is back, empty
C16_Witness ==
    /\ CalledWhileAbsent
    /\ ManagerCall("get")
    /\ args[3] = "d"
    /\ result = "d"
    /\ session_state[args[1]] = EmptyDict

----------------------------------------------------------------------------
\* C17: once a StateManager for namespace ns has been constructed, ns remains
\* a key of session state after any sequence of StateManager operations on
\* any namespace; clear() leaves ns present and mapped to an empty mapping
\* rather than removing the key.
C17_NamespaceKeyPersists ==
    /\ \A ns \in managers : ns \in DOMAIN session_state
    /\ ManagerCall("clear") =>
           /\ args[1] \in DOMAIN session_state
           /\ session_state[args[1]] = EmptyDict

\* Both namespaces in use, one just cleared and the other holding both keys
C17_Witness ==
    /\ ManagerCall("clear")
    /\ managers = Namespaces
    /\ session_state[args[1]] = EmptyDict
    /\ \E ns \in managers : DOMAIN session_state[ns] = StateKeys

----------------------------------------------------------------------------
\* C18: StateManager.get_all() returns a copy of the namespace's mapping:
\* adding, replacing or deleting keys in the returned mapping leaves the
\* stored namespace unchanged, so a subsequent get/get_all reflects only the
\* set/delete/clear calls.
C18_GetAllReturnsCopy ==
    [][ /\ (lastOp' = "caller_mutates" => session_state' = session_state)
        /\ (lastOp = "caller_mutates" /\ lastOp' = "StateManager.get_all" =>
                result'.value = SetCallsOf(last_set', args'[1]))
        /\ (lastOp = "caller_mutates" /\ lastOp' = "StateManager.get" =>
                result' = MapGet(SetCallsOf(last_set', args'[1]), args'[2], args'[3]))
      ]_vars

\* The caller has changed the dict handed out and it now differs from the
\* stored namespace
C18_Witness ==
    /\ lastOp = "caller_mutates"
    /\ result.ref = "copy"
    /\ result.value # session_state[result.of]
    /\ session_state[result.of] # EmptyDict

----------------------------------------------------------------------------
\* C19: remove_page(name) with a name that is not a key of pages raises
\* nothing and leaves pages, navigation_items, current_page and callbacks
\* unchanged; with a present name it removes exactly that key from pages and
\* every navigation entry for it, leaving all other pages and their relative
\* order unchanged.
C19_RemovePageFrame ==
    [][ lastOp' = "remove_page" =>
          /\ exception' = None
          /\ IF args'[1] \notin KeySet(pages)
             THEN /\ pages' = pages
                  /\ navigation_items' = navigation_items
                  /\ current_page' = current_page
                  /\ callbacks' = callbacks
             ELSE /\ pages' = SelectSeq(pages, LAMBDA p : p.name # args'[1])
                  /\ Len(pages') = Len(pages) - 1
                  /\ navigation_items' =
                         SelectSeq(navigation_items, LAMBDA item : item.name # args'[1])
      ]_vars

\* The active page, which was registered, has been removed while another
\* page stays registered and listed
C19_Witness ==
    /\ lastOp = "remove_page"
    /\ EventsOf("logger.info") # <<>>
    /\ args[1] \notin KeySet(pages)
    /\ \A i \in 1..Len(navigation_items) : navigation_items[i].name # args[1]
    /\ current_page = args[1]
    /\ pages # <<>>
    /\ navigation_items # <<>>

----------------------------------------------------------------------------
\* C20: the navigation list is a projection of the registry: in every
\* reachable state, each navigation entry's icon and display label equal the
\* icon and get_display_name() of the page currently stored in pages under
\* that entry's name, including after add_page overwrites an existing name
\* with a page that has a different icon.
C20_NavigationProjectsRegistry ==
    \A i \in 1..Len(navigation_items) :
        LET item == navigation_items[i] IN
        item.name \in KeySet(pages) =>
            /\ item.icon = DictGet(pages, item.name).icon
            /\ item.display = get_display_name(DictGet(pages, item.name))

----------------------------------------------------------------------------
(* Observations on the pipeline runner *)

\* The positions of pipeline.events holding an event of this kind
EventPositions(kind) ==
    {i \in 1..Len(pipeline.events) : pipeline.events[i][1] = kind}

\* A subprocess of this execution returned non-zero
SubprocessFailed ==
    \E i \in EventPositions("return") : pipeline.events[i][3] # 0

\* The place of a script in the order of main()'s steps, the chat last
StepIndex(script) ==
    IF script = ChatScript THEN Len(Steps) + 1
    ELSE CHOOSE j \in 1..Len(Steps) : Steps[j] = script

----------------------------------------------------------------------------
\* C21: main() exits with code 1 whenever OPENAI_API_KEY is unset or empty or
\* any subprocess it launches returns non-zero (PDF conversion, chunking,
\* embedding, and the chat subprocess started by --start-chat); it does not
\* finish with a success status in any of those cases.
C21_FailureExitsWithOne ==
    (pipeline.pc = "exit" /\ (~Truthy(pipeline.OPENAI_API_KEY) \/ SubprocessFailed)) =>
        pipeline.exit_code = 1

----------------------------------------------------------------------------
\* C27: the runner starts its stages strictly in the order PDF conversion,
\* chunking, embedding, optional chat, each only after the previous one has
\* finished: no subprocess and no directory creation happens when the
\* prerequisite check fails, a stage whose skip flag is set is never
\* launched, and after a stage returns non-zero no later stage is launched.
C27_StagesInOrder ==
    LET E == pipeline.events
        launches == EventPositions("launch")
    IN  /\ ~Truthy(pipeline.OPENAI_API_KEY) => E = <<>>
        /\ \A i \in launches :
               /\ E[i][2] \in {Steps[j] : j \in 1..Len(Steps)} =>
                      ~pipeline.args[SkipFlagOf(E[i][2])]
               /\ E[i][2] = ChatScript => pipeline.args["start_chat"]
               /\ \A j \in launches : i < j => StepIndex(E[i][2]) < StepIndex(E[j][2])
               /\ IF i = Len(E) THEN pipeline.pc \in {"run_command", "chat"}
                  ELSE E[i + 1][1] = "return" /\ E[i + 1][2] = E[i][2]
               /\ \A d \in 1..Len(Directories) : i > d /\ E[d] = <<"mkdir", Directories[d]>>
        /\ \A i \in EventPositions("return") :
               /\ i > 1 /\ E[i - 1] = <<"launch", E[i][2]>>
               /\ E[i][3] # 0 => i = Len(E)

\* The PDF conversion ran and returned 0, chunking was skipped, the embedding
\* ran and returned 2, and main() exited with 1 although --start-chat was given
C27_Witness ==
    /\ pipeline.pc = "exit"
    /\ pipeline.exit_code = 1
    /\ pipeline.args["start_chat"]
    /\ pipeline.events =
           [i \in 1..Len(Directories) |-> <<"mkdir", Directories[i]>>] \o
           << <<"launch", "pdf_to_markdown">>, <<"return", "pdf_to_markdown", 0>>,
              <<"skip", "chunk_documents">>,
              <<"launch", "generate_embeddings">>, <<"return", "generate_embeddings", 2>> >>

----------------------------------------------------------------------------
(* Observations on a cycle that changes the page *)

\* The latest operation was a run() that entered the "Update current page"
\* block: it assigned the marker, or on_unload raised before it could
ChangeCycle ==
    lastOp = "run" /\ (EventsOf("set_current") # <<>> \/ exception = "on_unload")

\* A page name that is truthy and a key of pages
IsRegistered(name) == Truthy(name) /\ name \in KeySet(pages)

\* The lifecycle events of the latest cycle as <<kind, subject>>, in order:
\* page hooks, the assignment of the marker and on_page_change callbacks
LifecycleLog ==
    LET l == SelectSeq(log, LAMBDA e :
                 \/ e[1] \in Hooks \cup {"set_current"}
                 \/ e[1] = "callback" /\ e[2] = "on_page_change")
    IN  [i \in 1..Len(l) |->
            IF l[i][1] = "callback" THEN <<"on_page_change", l[i][3]>>
            ELSE <<l[i][1], l[i][2]>>]

\* The order the claim fixes for a change from page outgoing to page incoming
\* with the callbacks cbs registered for on_page_change
FixedOrder(outgoing, incoming, cbs) ==
    (IF IsRegistered(outgoing) THEN << <<"on_unload", outgoing>> >> ELSE <<>>)
    \o << <<"set_current", incoming>> >>
    \o [i \in 1..Len(cbs) |-> <<"on_page_change", cbs[i]>>]
    \o (IF IsRegistered(incoming)
        THEN << <<"on_init", incoming>>, <<"on_load", incoming>>, <<"render", incoming>> >>
        ELSE <<>>)

\* s is an initial part of t
IsPrefix(s, t) == Len(s) <= Len(t) /\ SubSeq(t, 1, Len(s)) = s

----------------------------------------------------------------------------
\* C22: in a run() cycle where the selection differs from current_page, events
\* occur in this fixed order: on_unload of the outgoing page (if it is still
\* registered), update of current_page, all on_page_change callbacks, on_init
\* of the incoming page, on_load of the incoming page, render of the incoming
\* page; no hook of the incoming page runs before the outgoing page's
\* on_unload.  A cycle a hook's exception ends makes an initial part of that
\* order, up to the hook that raised.
C22_ChangeCycleOrder ==
    ChangeCycle =>
        IF exception = "on_unload"
        THEN LifecycleLog = << <<"on_unload", prev_page>> >>
        ELSE LET order == FixedOrder(prev_page, current_page,
                                     RegisteredFor("on_page_change"))
             IN  /\ IsPrefix(LifecycleLog, order)
                 /\ exception = None => LifecycleLog = order
                 /\ exception # None =>
                        LifecycleLog[Len(LifecycleLog)] = <<exception, current_page>>

\* A change from one registered page to another with two on_page_change
\* callbacks registered: six kinds of event, seven events
C22_Witness ==
    /\ ChangeCycle
    /\ exception = None
    /\ IsRegistered(prev_page)
    /\ IsRegistered(current_page)
    /\ Len(RegisteredFor("on_page_change")) = 2
    /\ Len(LifecycleLog) = 7

----------------------------------------------------------------------------
\* C23: on_page_change callbacks are executed in a run() cycle if and only if
\* current_page changes in that cycle (including the first cycle's change
\* from None to a page, and a change to None when the registry has become
\* empty), and then exactly once per registered callback; a cycle that keeps
\* the same page fires none.
C23_PageChangeCallbacksIffChange ==
    lastOp = "run" =>
        Invoked(log, "on_page_change") =
            IF current_page # prev_page THEN RegisteredFor("on_page_change") ELSE <<>>

\* A cycle that changed the marker to None, the registry being empty, fired
\* the two registered callbacks
C23_Witness ==
    /\ lastOp = "run"
    /\ prev_page # None
    /\ current_page = None
    /\ pages = <<>>
    /\ Len(Invoked(log, "on_page_change")) = 2

----------------------------------------------------------------------------
\* C24: on_app_start callbacks are executed at most once per session: only in
\* the first run() cycle (when app_initialized is absent from session state),
\* before any page hook of that cycle, and never again in later cycles, for
\* any sequence of run(), page renders and SessionState/StateManager
\* operations in between.
C24_OnAppStartAtMostOnce ==
    /\ app_starts # "repeated"
    /\ lastOp = "run" =>
           \A i, j \in 1..Len(log) :
               (log[i][1] \in Hooks /\ log[j][1] = "callback" /\ log[j][2] = "on_app_start")
                   => j < i

----------------------------------------------------------------------------
\* C25: a callback registered with add_callback("on_app_end", cb) is accepted
\* and stored but is never invoked by any sequence of StreamlitApp operations
\* (add_page, remove_page, add_callback, run): no code path executes the
\* on_app_end event.
C25_OnAppEndNeverInvoked ==
    /\ (lastOp = "add_callback" /\ args[1] = "on_app_end") =>
           /\ result = "self"
           /\ callbacks["on_app_end"] # <<>>
           /\ callbacks["on_app_end"][Len(callbacks["on_app_end"])] = args[2]
    /\ callbacks["on_app_end"] = RegisteredFor("on_app_end")
    /\ Invoked(log, "on_app_end") = <<>>

\* A cycle that changed the page and invoked an on_page_change callback
\* while an on_app_end callback was stored
C25_Witness ==
    /\ lastOp = "run"
    /\ MarkerChanged
    /\ callbacks["on_app_end"] # <<>>
    /\ Invoked(log, "on_page_change") # <<>>
    /\ Invoked(log, "on_app_end") = <<>>

----------------------------------------------------------------------------
\* C26: remove_page never modifies current_page and never invokes a lifecycle
\* hook or callback: removing the currently active page leaves current_page
\* naming the removed page until the next run(), and that next run() changes
\* the marker without calling on_unload on the removed page.
C26_RemoveKeepsMarker ==
    [][ /\ lastOp' \in {"remove_page", "add_page"} => current_page' = current_page
        /\ lastOp' = "remove_page" =>
               \A i \in 1..Len(log') : log'[i][1] \notin Hooks \cup {"callback", "set_current"}
        /\ (/\ lastOp = "remove_page"
            /\ EventsOf("logger.info") # <<>>
            /\ args[1] = current_page
            /\ lastOp' = "run") =>
               /\ current_page' # current_page
               /\ \A i \in 1..Len(log') : log'[i][1] # "on_unload"
      ]_vars

\* The cycle after the active page was removed: the marker moved on to a
\* registered page, no on_unload was called
C26_Witness ==
    /\ lastOp = "run"
    /\ exception = None
    /\ Truthy(prev_page)
    /\ prev_page \notin KeySet(pages)
    /\ IsRegistered(current_page)
    /\ EventsOf("on_unload") = <<>>
    /\ EventsOf("on_init") # <<>>

----------------------------------------------------------------------------
\* C28: if the outgoing page's on_unload raises during a page-changing run()
\* cycle, the exception propagates out of run() with current_page still
\* naming the outgoing page and with no on_page_change callback and no hook
\* of the incoming page executed in that cycle, so the next cycle with the
\* same selection calls on_unload on the outgoing page again.
C28_UnloadFailureKeepsOutgoing ==
    [][ /\ (lastOp' = "run" /\ exception' = "on_unload") =>
               /\ current_page' = current_page
               /\ IsRegistered(current_page)
               /\ LifecycleLog' = << <<"on_unload", current_page>> >>
        /\ (/\ lastOp = "run" /\ exception = "on_unload"
            /\ lastOp' = "run" /\ selected' = selected) =>
               /\ LifecycleLog' # <<>>
               /\ LifecycleLog'[1] = <<"on_unload", current_page>>
      ]_vars

\* on_unload of the outgoing page raised: the marker still names it, and the
\* registered on_page_change callback was not invoked
C28_Witness ==
    /\ lastOp = "run"
    /\ exception = "on_unload"
    /\ current_page = prev_page
    /\ IsRegistered(current_page)
    /\ selected # current_page
    /\ RegisteredFor("on_page_change") # <<>>
    /\ Invoked(log, "on_page_change") = <<>>
    /\ LifecycleLog = << <<"on_unload", current_page>> >>

----------------------------------------------------------------------------
\* C29: namespaces are isolated sub-stores: for distinct namespaces a and b,
\* no StateManager(a) operation (construction, set, delete, clear, get,
\* get_all) changes the contents returned by StateManager(b).get_all(), while
\* two StateManager instances created with the same namespace always observe
\* the same contents: what get_all() returns is the store's entry for the
\* namespace, and constructing another instance on it changes nothing.
C29_NamespacesIsolated ==
    [][ /\ \A b \in managers :
               (/\ lastOp' \in {"StateManager", "StateManager.set", "StateManager.get",
                                "StateManager.delete", "StateManager.clear",
                                "StateManager.get_all"}
                /\ args'[1] # b) =>
                   /\ b \in DOMAIN session_state'
                   /\ session_state'[b] = session_state[b]
        /\ (lastOp' = "StateManager" /\ args'[1] \in managers) =>
               session_state' = session_state
        /\ lastOp' = "StateManager.get_all" =>
               result'.value = session_state'[args'[1]]
      ]_vars

\* clear() of one namespace while the other holds both keys
C29_Witness ==
    /\ ManagerCall("clear")
    /\ managers = Namespaces
    /\ session_state[args[1]] = EmptyDict
    /\ \E b \in managers \ {args[1]} : session_state[b] = [k \in StateKeys |-> "x"]

====
